---- MODULE Spec2Model ----
(***************************************************************************)
(* Model of frontend/src/api/index.js: the shared axios client, its        *)
(* response interceptor and the two request helpers.                       *)
(*                                                                         *)
(* A JavaScript value is a record [t, n, s, wraps]: type tag, number,      *)
(* string, and how many objects { data: ... } are wrapped around it.       *)
(* What a promise carries is a record [sort, data, status, headers, code,  *)
(* req]: a plain value, an HTTP response wrapper or a transport error.     *)
(***************************************************************************)
EXTENDS Integers, Sequences, FiniteSets, TLC

VARIABLES
    env,        \* import.meta.env as seen at module load
    defaults,   \* api.defaults: [baseURL, timeout]
    handlers,   \* api.interceptors.response.handlers (a slot is "null" once ejected)
    requestHandlers, \* api.interceptors.request.handlers, likewise
    calls,      \* one record per request made through the shared client
    wire        \* the HTTP requests handed to the transport, in order

vars == <<env, defaults, handlers, requestHandlers, calls, wire>>

\* ---------------------------------------------------------------- bounds
MaxCalls == 2
MaxExportCalls == 1
MaxHandlers == 2
MaxRequestHandlers == 1
TickMs == 30000

\* ---------------------------------------------------------------- values
Undefined == [t |-> "undefined", n |-> 0, s |-> "", wraps |-> 0]
Num(x) == [t |-> "number", n |-> x, s |-> "", wraps |-> 0]
Str(x) == [t |-> "string", n |-> 0, s |-> x, wraps |-> 0]
\* An object, given by its JSON text, that has no `data` key.
Json(x) == [t |-> "object", n |-> 0, s |-> x, wraps |-> 0]
\* The object { data: v }.
DataObj(v) == [v EXCEPT !.wraps = @ + 1]

\* JavaScript truthiness, as `||` tests it.
Truthy(v) ==
    CASE v.wraps > 0 -> TRUE
      [] v.t = "undefined" -> FALSE
      [] v.t = "null" -> FALSE
      [] v.t = "number" -> v.n # 0
      [] v.t = "string" -> v.s # ""
      [] OTHER -> TRUE

Digit(d) == <<"0", "1", "2", "3", "4", "5", "6", "7", "8", "9">>[d + 1]

RECURSIVE NatStr(_)
NatStr(k) == IF k < 10 THEN Digit(k) ELSE NatStr(k \div 10) \o Digit(k % 10)

\* String conversion of a value interpolated into a template literal.
ToStr(v) ==
    CASE v.wraps > 0 -> "[object Object]"
      [] v.t = "undefined" -> "undefined"
      [] v.t = "null" -> "null"
      [] v.t = "number" -> IF v.n < 0 THEN "-" \o NatStr(-v.n) ELSE NatStr(v.n)
      [] v.t = "string" -> v.s
      [] OTHER -> "[object Object]"

NoThing ==
    [sort |-> "none", data |-> Undefined, status |-> 0, headers |-> "", code |-> "", req |-> 0]
Val(d) ==
    [sort |-> "value", data |-> d, status |-> 0, headers |-> "", code |-> "", req |-> 0]
Response(c, st, d) ==
    [sort |-> "response", data |-> d, status |-> st,
     headers |-> "content-type: application/json", code |-> "", req |-> c]
Err(c, cd, st, d) ==
    [sort |-> "error", data |-> d, status |-> st, headers |-> "", code |-> cd, req |-> c]

Pending == [state |-> "pending", v |-> NoThing]
Fulfilled(x) == [state |-> "fulfilled", v |-> x]
Rejected(x) == [state |-> "rejected", v |-> x]

\* ---------------------------------------------------------------- inputs
NoEnv == [present |-> FALSE, VITE_API_URL |-> Undefined]
EnvWith(v) == [present |-> TRUE, VITE_API_URL |-> v]
Override == "https://api.teenmind.example"
\* A base URL a caller may put on the exported client.
OtherBaseURL == "https://staging.teenmind.example"
Envs == {NoEnv, EnvWith(Undefined), EnvWith(Str("")), EnvWith(Str(Override))}

\* Argument pairs the callers pass: numbers, strings, an empty string and a
\* missing argument, so that no conversion is the identity on all of them.
DashboardArgs == {<<Num(42), Num(7)>>, <<Str("u7"), Undefined>>}
EmotionArgs == {<<Str("I feel great"), Num(42)>>, <<Str(""), Str("u7")>>}
\* What the server may answer: a status and a body. One body is empty and
\* falsy, one has a `data` key of its own: { data: { data: 5 } }.
Answers == {<<200, Str("")>>, <<200, DataObj(DataObj(Num(5)))>>,
            <<500, Json("{\"detail\":\"error\"}")>>}

\* ---------------------------------------------------------------- module load
DefaultBaseURL == "http://localhost:8000"
Timeout == 30000

\* import.meta?.env?.VITE_API_URL
EnvLookup(e) == IF e.present THEN e.VITE_API_URL ELSE Undefined

BaseURLAlwaysDefault(e) == DefaultBaseURL

\* import.meta?.env?.VITE_API_URL || 'http://localhost:8000'
BaseURL(e) == IF Truthy(EnvLookup(e)) THEN EnvLookup(e).s ELSE DefaultBaseURL

\* axios.create({ baseURL, timeout })
CreateDefaults(e) == [baseURL |-> BaseURL(e), timeout |-> Timeout]

Init ==
    /\ env \in Envs
    /\ defaults = CreateDefaults(env)
    /\ handlers = <<"unwrap">>
    /\ requestHandlers = <<>>
    /\ calls = <<>>
    /\ wire = <<>>

\* The environment is read once, for the base URL: one environment for each
\* base URL the client can be created with.
InitClient == Init /\ env \in {NoEnv, EnvWith(Str(Override))}

\* ---------------------------------------------------------------- interceptor
\* res.data: the body of a response, the value under `data` of an object
\* { data: v }, undefined on anything else that has properties.
GetData(res) ==
    IF res.sort = "response" THEN res.data
    ELSE IF res.sort = "value" /\ res.data.wraps > 0 THEN [res.data EXCEPT !.wraps = @ - 1]
    ELSE Undefined

\* Whether reading a property of x throws (x is undefined or null).
Nullish(x) == x.sort = "value" /\ x.data.wraps = 0 /\ x.data.t \in {"undefined", "null"}

TypeError == Err(0, "TypeError", 0, Undefined)

onFulfilledWrapper(res) == Fulfilled(res)
onFulfilledOr(res) == IF Truthy(GetData(res)) THEN Fulfilled(Val(GetData(res))) ELSE Fulfilled(res)

\* (res) => res.data
onFulfilled(res) == IF Nullish(res) THEN Rejected(TypeError) ELSE Fulfilled(Val(GetData(res)))

onRejectedSwallow(err) == Fulfilled(err)

\* (err) => Promise.reject(err)
onRejected(err) == Rejected(err)

\* promise.then(fulfilled, rejected) for one registered handler pair
ApplyHandler(h, outcome) ==
    IF outcome.state = "fulfilled" THEN onFulfilled(outcome.v)
    ELSE IF outcome.state = "rejected" THEN onRejected(outcome.v)
    ELSE outcome

RECURSIVE RunChain(_, _)
RunChain(chain, outcome) ==
    IF chain = <<>> THEN outcome
    ELSE RunChain(Tail(chain), ApplyHandler(Head(chain), outcome))

\* The handlers a request picks up when it is issued (ejected slots are skipped).
Chain == SelectSeq(handlers, LAMBDA h : h # "null")
RequestChain == SelectSeq(requestHandlers, LAMBDA h : h # "null")

\* ---------------------------------------------------------------- requests
MergedConfigNoTimeout(method, url, params, data) ==
    [method |-> method, baseURL |-> defaults.baseURL, timeout |-> 0,
     url |-> url, params |-> params, data |-> data]
MergedConfigFrozen(method, url, params, data) ==
    [method |-> method, baseURL |-> BaseURL(env), timeout |-> Timeout,
     url |-> url, params |-> params, data |-> data]

\* The request configuration: the client's defaults merged with the call's own.
MergedConfig(method, url, params, data) ==
    [method |-> method, baseURL |-> defaults.baseURL, timeout |-> defaults.timeout,
     url |-> url, params |-> params, data |-> data]

NewCall(helper, args, cfg) ==
    [helper |-> helper, args |-> args, config |-> cfg, chain |-> Chain,
     elapsed |-> 0, transport |-> Pending, result |-> Pending,
     settles |-> 0]

Sent(c, cfg) == [call |-> c, config |-> cfg]

\* A caller's request interceptor: (config) => ({ ...config, baseURL: other }).
ApplyRequestHandler(h, cfg) == [cfg EXCEPT !.baseURL = OtherBaseURL]

\* Request interceptors run on the merged configuration, last registered first.
RECURSIVE RunRequestChain(_, _)
RunRequestChain(chain, cfg) ==
    IF chain = <<>> THEN cfg
    ELSE RunRequestChain(SubSeq(chain, 1, Len(chain) - 1),
                         ApplyRequestHandler(chain[Len(chain)], cfg))

\* api.request(config): one promise for the caller, one request on the wire.
Request(helper, args, cfg) ==
    /\ Len(calls) < MaxCalls
    /\ LET sent == RunRequestChain(RequestChain, cfg)
       IN /\ calls' = Append(calls, NewCall(helper, args, sent))
          /\ wire' = Append(wire, Sent(Len(calls) + 1, sent))
    /\ UNCHANGED <<env, defaults, handlers, requestHandlers>>

getDashboardDataConfigPost(userId, days) ==
    MergedConfig("post", "/api/users/" \o ToStr(userId) \o "/dashboard",
                 Undefined, [days |-> days])

\* api.get(`/api/users/${userId}/dashboard`, { params: { days } })
getDashboardDataConfig(userId, days) ==
    MergedConfig("get", "/api/users/" \o ToStr(userId) \o "/dashboard",
                 [days |-> days], Undefined)

analyzeEmotionConfigSwapped(text, userId) ==
    MergedConfig("post", "/api/analysis/emotion", Undefined,
                 [text |-> userId, user_id |-> text])

\* api.post('/api/analysis/emotion', { text, user_id: userId })
analyzeEmotionConfig(text, userId) ==
    MergedConfig("post", "/api/analysis/emotion", Undefined,
                 [text |-> text, user_id |-> userId])

getDashboardData ==
    \E a \in DashboardArgs :
        Request("getDashboardData", a, getDashboardDataConfig(a[1], a[2]))

analyzeEmotion ==
    \E a \in EmotionArgs :
        Request("analyzeEmotion", a, analyzeEmotionConfig(a[1], a[2]))

\* ---------------------------------------------------------------- transport
InFlight(c) == c \in 1..Len(calls) /\ calls[c].transport.state = "pending"
TimedOut(c) == calls[c].config.timeout > 0 /\ calls[c].elapsed >= calls[c].config.timeout

Min(a, b) == IF a < b THEN a ELSE b

Advance(r) ==
    IF r.transport.state = "pending" /\ r.config.timeout > 0
    THEN [r EXCEPT !.elapsed = Min(r.elapsed + TickMs, r.config.timeout)]
    ELSE r

\* Time passes for every request in flight; a due timeout fires first.
Tick ==
    /\ \E c \in 1..Len(calls) : InFlight(c) /\ calls[c].config.timeout > 0
    /\ \A c \in 1..Len(calls) : InFlight(c) => ~TimedOut(c)
    /\ calls' = [c \in 1..Len(calls) |-> Advance(calls[c])]
    /\ UNCHANGED <<env, defaults, handlers, requestHandlers, wire>>

\* validateStatus: a status in 200..299 fulfils, any other rejects.
TransportOutcome(c, st, body) ==
    IF st >= 200 /\ st < 300
    THEN Fulfilled(Response(c, st, body))
    ELSE Rejected(Err(c, "ERR_BAD_RESPONSE", st, body))

\* The transport promise of a request settles and its timer is cleared.
Done(r, outcome) == [r EXCEPT !.transport = outcome, !.elapsed = 0]

\* The server answers request c: its transport promise settles.
Respond(c) ==
    /\ InFlight(c) /\ ~TimedOut(c)
    /\ \E a \in Answers :
        calls' = [calls EXCEPT ![c] = Done(@, TransportOutcome(c, a[1], a[2]))]
    /\ UNCHANGED <<env, defaults, handlers, requestHandlers, wire>>

\* The connection fails.
NetworkError(c) ==
    /\ InFlight(c) /\ ~TimedOut(c)
    /\ calls' = [calls EXCEPT ![c] = Done(@, Rejected(Err(c, "ERR_NETWORK", 0, Undefined)))]
    /\ UNCHANGED <<env, defaults, handlers, requestHandlers, wire>>

\* The request's timeout elapses before any answer.
TimeoutFires(c) ==
    /\ InFlight(c) /\ TimedOut(c)
    /\ calls' = [calls EXCEPT ![c] = Done(@, Rejected(Err(c, "ECONNABORTED", 0, Undefined)))]
    /\ UNCHANGED <<env, defaults, handlers, requestHandlers, wire>>

\* ---------------------------------------------------------------- settling
\* The transport promise of request c is settled and the caller's promise is
\* not yet: the handlers are promise reactions and run in later jobs, so
\* other requests may be issued, answered or settled in between.
Ready(c) ==
    /\ c \in 1..Len(calls)
    /\ calls[c].transport.state # "pending"
    /\ calls[c].result.state = "pending"

\* The caller's promise takes what the interceptor chain made of the outcome.
Settled(r, outcome) ==
    [r EXCEPT !.result = outcome,
              !.settles = IF outcome.state = "pending" THEN @ ELSE @ + 1]

SettleRetry(c) ==
    /\ Ready(c)
    /\ IF calls[c].transport.state = "rejected" /\ Cardinality({i \in 1..Len(wire) : wire[i].call = c}) < 2
       THEN /\ calls' = [calls EXCEPT ![c].transport = Pending, ![c].elapsed = 0]
            /\ wire' = Append(wire, Sent(c, calls[c].config))
       ELSE /\ calls' = [calls EXCEPT ![c] = Settled(@, RunChain(@.chain, @.transport))]
            /\ wire' = wire
    /\ UNCHANGED <<env, defaults, handlers, requestHandlers>>

SettleShared(c) ==
    /\ Ready(c)
    /\ \E d \in 1..Len(calls) :
        /\ calls[d].transport.state # "pending"
        /\ \A e \in 1..Len(calls) : calls[e].transport.state # "pending" => e <= d
        /\ calls' = [calls EXCEPT ![c] = Settled(@, RunChain(@.chain, calls[d].transport))]
    /\ UNCHANGED <<env, defaults, handlers, requestHandlers, wire>>

\* The promise jobs of request c run: the response interceptor chain works on
\* the transport's outcome and the caller's promise takes the result, one
\* job later when a handler returns a value and three jobs later when it
\* returns Promise.reject(err), which the caller's promise has to adopt.
\* The jobs read and write nothing but the promises of c, so what other code
\* does between them is what it does before this step. Nothing is sent.
Settle(c) ==
    /\ Ready(c)
    /\ calls' = [calls EXCEPT ![c] = Settled(@, RunChain(@.chain, @.transport))]
    /\ UNCHANGED <<env, defaults, handlers, requestHandlers, wire>>

\* ---------------------------------------------------------------- the exported client
\* `export default api` hands callers the client itself: its defaults, its
\* interceptor managers and its request methods.
\* A caller assigns api.defaults.baseURL and api.defaults.timeout.
SetDefaults ==
    /\ \E d \in {[baseURL |-> OtherBaseURL, timeout |-> 5000], CreateDefaults(env)} :
        /\ d # defaults
        /\ defaults' = d
    /\ UNCHANGED <<env, handlers, requestHandlers, calls, wire>>

\* A caller runs api.interceptors.response.use(f, r) with the handler pair
\* index.js registers: a second registration of the same pair.
UseInterceptor ==
    /\ Len(handlers) < MaxHandlers
    /\ handlers' = Append(handlers, "unwrap")
    /\ UNCHANGED <<env, defaults, requestHandlers, calls, wire>>

\* A caller runs api.interceptors.response.eject(id).
EjectInterceptor ==
    /\ \E i \in 1..Len(handlers) :
        /\ handlers[i] # "null"
        /\ handlers' = [handlers EXCEPT ![i] = "null"]
    /\ UNCHANGED <<env, defaults, requestHandlers, calls, wire>>

\* A caller runs api.interceptors.response.clear().
ClearInterceptors ==
    /\ handlers # <<>>
    /\ handlers' = <<>>
    /\ UNCHANGED <<env, defaults, requestHandlers, calls, wire>>

\* A caller runs api.interceptors.request.use(f).
UseRequestInterceptor ==
    /\ Len(requestHandlers) < MaxRequestHandlers
    /\ requestHandlers' = Append(requestHandlers, "retarget")
    /\ UNCHANGED <<env, defaults, handlers, calls, wire>>

\* A caller runs api.interceptors.request.eject(id).
EjectRequestInterceptor ==
    /\ \E i \in 1..Len(requestHandlers) :
        /\ requestHandlers[i] # "null"
        /\ requestHandlers' = [requestHandlers EXCEPT ![i] = "null"]
    /\ UNCHANGED <<env, defaults, handlers, calls, wire>>

\* A caller runs api.interceptors.request.clear().
ClearRequestInterceptors ==
    /\ requestHandlers # <<>>
    /\ requestHandlers' = <<>>
    /\ UNCHANGED <<env, defaults, handlers, calls, wire>>

\* A caller runs api.get('/health') on the client itself.
DirectRequest ==
    Request("direct", <<>>, MergedConfig("get", "/health", Undefined, Undefined))

\* ---------------------------------------------------------------- specification
Next ==
    \/ getDashboardData
    \/ analyzeEmotion
    \/ Tick
    \/ \E c \in 1..MaxCalls : Respond(c)
    \/ \E c \in 1..MaxCalls : NetworkError(c)
    \/ \E c \in 1..MaxCalls : TimeoutFires(c)
    \/ \E c \in 1..MaxCalls : Settle(c)

\* The module's own code and the transport.
Spec == Init /\ [][Next]_vars

\* The event loop lets time pass, runs a timer that is due and runs the
\* promise jobs that are queued.
Fairness ==
    /\ WF_vars(Tick)
    /\ \A c \in 1..MaxCalls : WF_vars(TimeoutFires(c))
    /\ \A c \in 1..MaxCalls : WF_vars(Settle(c))

SpecLive == Init /\ [][Next]_vars /\ Fairness

\* Requests a caller makes through the exports, and what the transport does.
Exchange ==
    \/ Len(calls) < MaxExportCalls /\ getDashboardData
    \/ Len(calls) < MaxExportCalls /\ analyzeEmotion
    \/ Len(calls) < MaxExportCalls /\ DirectRequest
    \/ Tick
    \/ \E c \in 1..MaxCalls : Respond(c)
    \/ \E c \in 1..MaxCalls : NetworkError(c)
    \/ \E c \in 1..MaxCalls : TimeoutFires(c)
    \/ \E c \in 1..MaxCalls : Settle(c)

NextConfig ==
    \/ Exchange
    \/ SetDefaults
    \/ UseRequestInterceptor
    \/ EjectRequestInterceptor
    \/ ClearRequestInterceptors

\* Callers also reach the request configuration through the default-exported
\* client: its defaults and its request interceptors.
SpecConfig == InitClient /\ [][NextConfig]_vars

NextIntercept ==
    \/ Exchange
    \/ UseInterceptor
    \/ EjectInterceptor
    \/ ClearInterceptors

\* Callers also reach the response interceptors of the default-exported client.
SpecIntercept == InitClient /\ [][NextIntercept]_vars

\* ---------------------------------------------------------------- properties
Helpers == {"getDashboardData", "analyzeEmotion"}
Ids == 1..Len(calls)
Ran(c) == calls[c].transport.state # "pending" /\ calls[c].result.state # "pending"
Succeeded(c) == calls[c].transport.state = "fulfilled"
Failed(c) == calls[c].transport.state = "rejected"
RequestsOf(c) == {i \in 1..Len(wire) : wire[i].call = c}

\* C1: a helper call whose exchange succeeds with response r resolves with
\* exactly r.data, never with the wrapper, whatever the body (falsy included).
C1_ResolvesWithBody ==
    \A c \in Ids :
        (calls[c].helper \in Helpers /\ Succeeded(c) /\ Ran(c)) =>
            /\ calls[c].result.state = "fulfilled"
            /\ calls[c].result.v.sort = "value"
            /\ calls[c].result.v.data = calls[c].transport.v.data
            /\ calls[c].result.v.status = 0 /\ calls[c].result.v.headers = ""

C1_Witness ==
    \E c, d \in Ids :
        /\ calls[c].helper = "getDashboardData" /\ calls[d].helper = "analyzeEmotion"
        /\ Succeeded(c) /\ Ran(c) /\ Succeeded(d) /\ Ran(d)
        /\ calls[c].transport.v.data = Str("")
        /\ calls[c].result.v.data = Str("")
        /\ calls[d].transport.v.data = DataObj(DataObj(Num(5)))
        /\ calls[d].result.v.data = DataObj(DataObj(Num(5)))

\* C2: a helper call whose request fails with transport error e is rejected
\* with that same error e: never resolved, never swallowed, never replaced.
C2_RejectsWithSameError ==
    \A c \in Ids :
        (calls[c].helper \in Helpers /\ Failed(c) /\ Ran(c)) =>
            /\ calls[c].result.state = "rejected"
            /\ calls[c].result.v = calls[c].transport.v
            /\ calls[c].result.v.sort = "error"
            /\ calls[c].result.v.req = c

C2_Witness ==
    \E c, d \in Ids :
        /\ Failed(c) /\ Ran(c) /\ Failed(d) /\ Ran(d)
        /\ calls[c].result.v.code = "ECONNABORTED"
        /\ calls[d].result.v.code = "ERR_BAD_RESPONSE" /\ calls[d].result.v.status = 500

\* C3: getDashboardData(userId, days) issues exactly one request: GET
\* /api/users/{userId}/dashboard, query parameter days as given, no body.
C3_DashboardRequest ==
    \A c \in Ids :
        calls[c].helper = "getDashboardData" =>
            /\ Cardinality(RequestsOf(c)) = 1
            /\ \A i \in RequestsOf(c) :
                /\ wire[i].config.method = "get"
                /\ wire[i].config.url = "/api/users/" \o ToStr(calls[c].args[1]) \o "/dashboard"
                /\ wire[i].config.params = [days |-> calls[c].args[2]]
                /\ wire[i].config.data = Undefined
                /\ calls[c].args = <<Num(42), Num(7)>> =>
                    /\ wire[i].config.url = "/api/users/42/dashboard"
                    /\ wire[i].config.params.days = Num(7)

C3_Witness ==
    \E c, d \in Ids :
        /\ calls[c].helper = "getDashboardData" /\ calls[c].args = <<Num(42), Num(7)>>
        /\ calls[d].helper = "getDashboardData" /\ calls[d].args = <<Str("u7"), Undefined>>
        /\ \E i \in RequestsOf(c) : wire[i].config.url = "/api/users/42/dashboard"
        /\ \E i \in RequestsOf(d) : wire[i].config.url = "/api/users/u7/dashboard"

\* C4: analyzeEmotion(text, userId) issues exactly one request: POST
\* /api/analysis/emotion with body { text: text, user_id: userId }, not swapped.
C4_EmotionRequest ==
    \A c \in Ids :
        calls[c].helper = "analyzeEmotion" =>
            /\ Cardinality(RequestsOf(c)) = 1
            /\ \A i \in RequestsOf(c) :
                /\ wire[i].config.method = "post"
                /\ wire[i].config.url = "/api/analysis/emotion"
                /\ wire[i].config.data = [text |-> calls[c].args[1], user_id |-> calls[c].args[2]]
                /\ DOMAIN wire[i].config.data = {"text", "user_id"}
                /\ calls[c].args = <<Str("I feel great"), Num(42)>> =>
                    wire[i].config.data = [text |-> Str("I feel great"), user_id |-> Num(42)]

C4_Witness ==
    \E c, d \in Ids :
        /\ calls[c].helper = "analyzeEmotion" /\ calls[c].args = <<Str("I feel great"), Num(42)>>
        /\ calls[d].helper = "analyzeEmotion" /\ calls[d].args = <<Str(""), Str("u7")>>
        /\ \E i \in RequestsOf(c) : wire[i].config.data.user_id = Num(42)
        /\ \E i \in RequestsOf(d) : wire[i].config.data.text = Str("")

\* C5: no retries: as many requests are issued as helper calls are made, a
\* failed request is never sent again, and a failed call is rejected once.
C5_NoRetries ==
    /\ Len(wire) = Len(calls)
    /\ \A c \in Ids :
        /\ Cardinality(RequestsOf(c)) = 1
        /\ calls[c].settles <= 1
        /\ (Failed(c) /\ Ran(c)) =>
            (calls[c].settles = 1 /\ calls[c].result.state = "rejected")

C5_Witness ==
    /\ Len(calls) = MaxCalls /\ Len(wire) = MaxCalls
    /\ \A c \in Ids : Failed(c) /\ Ran(c) /\ calls[c].settles = 1

\* C6: with several calls in flight, each caller gets the outcome of its own
\* request under every interleaving, and settling one call leaves the others alone.
C6_OwnOutcome ==
    \A c \in Ids :
        Ran(c) =>
            /\ Succeeded(c) =>
                (calls[c].result.state = "fulfilled"
                 /\ calls[c].result.v.data = calls[c].transport.v.data
                 /\ calls[c].transport.v.req = c)
            /\ Failed(c) =>
                (calls[c].result.state = "rejected"
                 /\ calls[c].result.v = calls[c].transport.v
                 /\ calls[c].result.v.req = c)

Outcome(r) == <<r.transport, r.result, r.settles>>

C6_OthersUntouched ==
    \A c \in Ids : \A d \in Ids \ {c} :
        Outcome(calls'[c]) # Outcome(calls[c]) => Outcome(calls'[d]) = Outcome(calls[d])

C6_Independent == []C6_OwnOutcome /\ [][C6_OthersUntouched]_vars

C6_Witness ==
    /\ Len(calls) >= 2
    /\ calls[1].helper # calls[2].helper
    /\ InFlight(1)
    /\ Failed(2) /\ Ran(2) /\ calls[2].result.v.req = 2

\* C8: with VITE_API_URL unset every request targets http://localhost:8000,
\* with a non-empty override every request targets the override; the choice
\* is made at load and is the same for all requests.
C8_BaseURL ==
    /\ \A i \in 1..Len(wire) :
        /\ EnvLookup(env).t = "undefined" => wire[i].config.baseURL = "http://localhost:8000"
        /\ (EnvLookup(env).t = "string" /\ EnvLookup(env).s # "") =>
            wire[i].config.baseURL = EnvLookup(env).s
    /\ \A i, j \in 1..Len(wire) : wire[i].config.baseURL = wire[j].config.baseURL

C8_Witness ==
    /\ env = EnvWith(Str(Override))
    /\ Len(wire) >= 2
    /\ calls[wire[1].call].helper # calls[wire[2].call].helper
    /\ wire[1].config.baseURL = Override /\ wire[2].config.baseURL = Override

\* C7 as stated: after any operations through the module's exports, the base
\* URL and timeout the helpers use equal the values set at module load.
C7_ConfigImmutable ==
    /\ defaults = CreateDefaults(env)
    /\ \A i \in 1..Len(wire) :
        calls[wire[i].call].helper \in Helpers =>
            /\ wire[i].config.baseURL = BaseURL(env)
            /\ wire[i].config.timeout = 30000

\* C7 as amended: nothing the module itself does changes the configuration:
\* only a caller assigning to the exported client's defaults does (a step that
\* issues, answers or settles no request), and every request issued while no
\* caller-registered request interceptor is installed carries the base URL
\* and timeout the client holds when the request is issued.
C7_IssuedWithCurrent ==
    (Len(wire') > Len(wire) /\ RequestChain = <<>>) =>
        \A i \in (Len(wire) + 1)..Len(wire') :
            /\ wire'[i].config.baseURL = defaults.baseURL
            /\ wire'[i].config.timeout = defaults.timeout

C7_OnlyCallerChanges ==
    /\ defaults' # defaults => (calls' = calls /\ wire' = wire)
    /\ C7_IssuedWithCurrent

C7_Amended == [][C7_OnlyCallerChanges]_vars

C7_Witness ==
    \E i \in 1..Len(wire) :
        /\ calls[wire[i].call].helper \in Helpers
        /\ defaults # CreateDefaults(env) /\ requestHandlers = <<>>
        /\ wire[i].config.timeout = 5000 /\ wire[i].config.baseURL = OtherBaseURL
        /\ calls[wire[i].call].result.v.code = "ECONNABORTED"

\* C9 as stated: no request through the shared client ever delivers the full
\* response wrapper; success gives the body and failure the same error.
C9_NeverWrapper ==
    \A c \in Ids :
        Ran(c) =>
            /\ Succeeded(c) => calls[c].result = Fulfilled(Val(calls[c].transport.v.data))
            /\ Failed(c) => calls[c].result = Rejected(calls[c].transport.v)

\* C9 as amended: every request through the shared client (helper or direct)
\* issued while the response interceptors are exactly the one registered at
\* load gets the body on success and the same error on failure; a request
\* takes the interceptors installed when it is issued and keeps them; a
\* request issued with none installed (after a caller's eject or clear) gets
\* the full response wrapper or the error, untouched.
C9_WhileInstalled ==
    \A c \in Ids :
        /\ (Ran(c) /\ calls[c].chain = <<"unwrap">>) =>
            /\ Succeeded(c) => calls[c].result = Fulfilled(Val(calls[c].transport.v.data))
            /\ Failed(c) => calls[c].result = Rejected(calls[c].transport.v)
        /\ (Ran(c) /\ calls[c].chain = <<>>) =>
            calls[c].result = calls[c].transport

C9_TakesInstalled ==
    /\ \A c \in Ids : calls'[c].chain = calls[c].chain
    /\ \A c \in (Len(calls) + 1)..Len(calls') :
        calls'[c].chain = SelectSeq(handlers, LAMBDA h : h # "null")

C9_Amended == []C9_WhileInstalled /\ [][C9_TakesInstalled]_vars

C9_Witness ==
    \E c \in Ids :
        /\ calls[c].helper = "direct" /\ calls[c].chain = <<"unwrap">>
        /\ handlers = <<"null", "unwrap">>
        /\ Succeeded(c) /\ calls[c].result = Fulfilled(Val(Str("")))

\* C10: every helper call eventually settles, exactly once: resolved or
\* rejected, never both, never pending forever, and a settled outcome stays.
\* A settled outcome staying, "again and again every call issued so far is
\* settled" says that each call issued settles.
C10_Stable ==
    \A c \in Ids :
        calls[c].result.state # "pending" =>
            (calls'[c].result = calls[c].result /\ calls'[c].settles = 1)

C10_Once ==
    \A c \in Ids :
        /\ calls[c].settles <= 1
        /\ (calls[c].settles = 1) = (calls[c].result.state \in {"fulfilled", "rejected"})

C10_SettlesOnce ==
    /\ []<>(\A c \in Ids : calls[c].result.state \in {"fulfilled", "rejected"})
    /\ []C10_Once
    /\ [][C10_Stable]_vars

C10_Witness ==
    \E c, d \in Ids :
        /\ calls[c].result.state = "rejected" /\ calls[c].result.v.code = "ECONNABORTED"
        /\ calls[c].config.timeout = 30000
        /\ calls[d].result.state = "fulfilled" /\ calls[d].settles = 1
====
